---- MODULE Spec2Model ----
(***************************************************************************)
(* Model of app/routes/users+/$username_+/notes.$noteId.tsx: the note      *)
(* route's loader, the NoteRoute component, and the ErrorBoundary /        *)
(* requireUser / sandwich-loader examples of the lesson text in the file.  *)
(*                                                                         *)
(* Text is a sequence of one-character strings, so that whitespace and     *)
(* escaping are visible.  JavaScript null / undefined are tagged records.  *)
(***************************************************************************)
EXTENDS Integers, Sequences, FiniteSets, TLC

\* Number of request slots served side by side.
NumRequests == 2

Requests == 1 .. NumRequests

\* Identifiers a request path can carry; each may or may not be stored.
NoteIds == { <<"n", "1">>, <<"n", "2">> }

\* Titles and contents with leading/trailing blanks, newlines, quotes.
Titles == { <<"T">>, <<" ", "T", " ">> }

Contents == { <<"a", "\n", " ", " ", "b">>, <<"\"", "\\">> }

Owners == { <<"k">> }

null == [t |-> "null"]

undefined == [t |-> "undefined"]

\* A JavaScript string value.
Str(s) == [t |-> "string", v |-> s]

\* Users a session can belong to, and what getUser(request) can yield.
Users == {[t |-> "object", id |-> "u1"], [t |-> "object", id |-> "u2"]}

GetUserResults == Users \cup {null, undefined}

\* params.sandwichId as the router can supply it.
SandwichIdParams == {Str(<<"s", "1">>), Str(<<>>), undefined}

Error(message) == [type |-> "Error", message |-> message]

\* Outcomes of getSandwich(id): a sandwich, null, or a store failure.
GetSandwichResults ==
    { [kind |-> "return", value |-> [name |-> <<"B", "L", "T">>]],
      [kind |-> "return", value |-> null],
      [kind |-> "throw", value |-> Error("connection lost")] }

\* A stored note: the fields of the note model of the database.
Note == [id : NoteIds, title : Titles, content : Contents, owner : Owners]

\* A store holds at most one note per identifier.
Stores == {s \in SUBSET Note : \A a, b \in s : a.id = b.id => a = b}

----------------------------------------------------------------------------
(* Collaborators *)

\* db.note.findFirst({ where: { id: { equals: id } } }): the matching note
\* or null.
findFirst(db, id) ==
    IF \E n \in db : n.id = id
    THEN CHOOSE n \in db : n.id = id
    ELSE null

\* new Response(body, { status, headers })
Response(body, status, headers) ==
    [type |-> "Response", status |-> status, body |-> body, headers |-> headers]

\* invariantResponse(condition, message, responseInit): throws
\* new Response(message, { status: 400, ...responseInit }) unless condition.
\* Result: the thrown value, or undefined when nothing is thrown.
invariantResponse(condition, message, status) ==
    IF condition THEN undefined ELSE Response([text |-> message], status, {})

----------------------------------------------------------------------------
(* JSON, as used by json(...) and useLoaderData() *)

RECURSIVE JsonEscape(_)
\* JSON.stringify of a string, without the surrounding quotes.
JsonEscape(s) ==
    IF s = <<>> THEN <<>>
    ELSE LET c == Head(s)
             e == CASE c = "\"" -> <<"\\", "\"">>
                    [] c = "\\" -> <<"\\", "\\">>
                    [] c = "\n" -> <<"\\", "n">>
                    [] OTHER -> <<c>>
         IN e \o JsonEscape(Tail(s))

RECURSIVE JsonUnescape(_)
\* JSON.parse of a string literal's inside.
JsonUnescape(e) ==
    IF e = <<>> THEN <<>>
    ELSE IF Head(e) = "\\"
         THEN LET c == e[2]
              IN <<(IF c = "n" THEN "\n" ELSE c)>> \o JsonUnescape(Tail(Tail(e)))
         ELSE <<Head(e)>> \o JsonUnescape(Tail(e))

\* json(data): a 200 response whose body is the serialised object; data is
\* an object of string-valued properties nested under one key.
json(data) ==
    Response([json |-> [k \in DOMAIN data |->
                          [f \in DOMAIN data[k] |-> JsonEscape(data[k][f])]]],
             200, {<<"Content-Type", "application/json; charset=utf-8">>})

\* useLoaderData(): the parsed body of the loader's response.
useLoaderData(response) ==
    [k \in DOMAIN response.body.json |->
        [f \in DOMAIN response.body.json[k] |->
            JsonUnescape(response.body.json[k][f])]]

----------------------------------------------------------------------------
(* The route module *)

Return(v) == [kind |-> "return", value |-> v]

Throw(v) == [kind |-> "throw", value |-> v]

RECURSIVE TrimStart(_)
TrimStart(s) ==
    IF s # <<>> /\ Head(s) \in {" ", "\n"} THEN TrimStart(Tail(s)) ELSE s

RECURSIVE TrimEnd(_)
TrimEnd(s) ==
    IF s # <<>> /\ s[Len(s)] \in {" ", "\n"}
    THEN TrimEnd(SubSeq(s, 1, Len(s) - 1))
    ELSE s

\* String.prototype.trim
Trim(s) == TrimEnd(TrimStart(s))

\* loader, but trimming the fields it returns.
loaderTrim(params, db) ==
    LET note == findFirst(db, params.noteId)
        thrown == invariantResponse(note # null, "Note not found", 404)
    IN IF thrown # undefined
       THEN Throw(thrown)
       ELSE Return(json([note |-> [title |-> Trim(note.title),
                                   content |-> Trim(note.content)]]))

\* loader, but without { status: 404 } in the invariantResponse call.
loaderNoStatus(params, db) ==
    LET note == findFirst(db, params.noteId)
        thrown == invariantResponse(note # null, "Note not found", 400)
    IN IF thrown # undefined
       THEN Throw(thrown)
       ELSE Return(json([note |-> [title |-> note.title,
                                   content |-> note.content]]))

\* loader, but returning json({ note }) with the whole stored record.
loaderWholeNote(params, db) ==
    LET note == findFirst(db, params.noteId)
        thrown == invariantResponse(note # null, "Note not found", 404)
    IN IF thrown # undefined
       THEN Throw(thrown)
       ELSE Return(json([note |-> note]))

\* loader, but answering a missing note with an empty one instead of
\* throwing.
loaderRecover(params, db) ==
    LET note == findFirst(db, params.noteId)
    IN IF note = null
       THEN Return(json([note |-> [title |-> <<>>, content |-> <<>>]]))
       ELSE Return(json([note |-> [title |-> note.title,
                                   content |-> note.content]]))

\* export async function loader({ params })
loader(params, db) ==
    LET note == findFirst(db, params.noteId)
        thrown == invariantResponse(note # null, "Note not found", 404)
    IN IF thrown # undefined
       THEN Throw(thrown)
       ELSE Return(json([note |-> [title |-> note.title,
                                   content |-> note.content]]))

RECURSIVE Collapse(_)
\* Runs of blanks and newlines become one blank, as in normal HTML flow.
Collapse(s) ==
    IF s = <<>> THEN <<>>
    ELSE IF Head(s) \in {" ", "\n"}
         THEN <<" ">> \o Collapse(TrimStart(s))
         ELSE <<Head(s)>> \o Collapse(Tail(s))

\* NoteRoute, but with the content's whitespace collapsed.
NoteRouteCollapsed(response) ==
    LET data == useLoaderData(response)
    IN [component |-> "NoteRoute",
        heading |-> data.note.title,
        body |-> [text |-> Collapse(data.note.content),
                  className |-> "whitespace-break-spaces"],
        actions |-> <<"Delete", "Edit">>]

\* export default function NoteRoute()
NoteRoute(response) ==
    LET data == useLoaderData(response)
    IN [component |-> "NoteRoute",
        heading |-> data.note.title,
        body |-> [text |-> data.note.content,
                  className |-> "whitespace-break-spaces"],
        actions |-> <<"Delete", "Edit">>]

\* isRouteErrorResponse(error)
isRouteErrorResponse(error) == error.type = "Response"

\* ErrorBoundary before the 404 branch is added.
ErrorBoundaryNo404(error) ==
    [component |-> "ErrorBoundary",
     message |->
        IF isRouteErrorResponse(error) /\ error.status = 401
        THEN "Unauthorized"
        ELSE "Something went wrong"]

\* ErrorBoundary, but taking every thrown response for a 404.
ErrorBoundaryAnyResponse(error) ==
    [component |-> "ErrorBoundary",
     message |->
        IF isRouteErrorResponse(error) THEN "Not Found"
        ELSE "Something went wrong"]

\* export function ErrorBoundary()
ErrorBoundary(error) ==
    [component |-> "ErrorBoundary",
     message |->
        IF isRouteErrorResponse(error) /\ error.status = 404 THEN "Not Found"
        ELSE IF isRouteErrorResponse(error) /\ error.status = 401
             THEN "Unauthorized"
             ELSE "Something went wrong"]

\* redirect(url): a 302 response with a Location header and no body.
redirect(url) == Response([empty |-> TRUE], 302, {<<"Location", url>>})

\* JavaScript truthiness of null, undefined, strings and objects.
Truthy(x) == x \notin {null, undefined, Str(<<>>)}

\* requireUser without its check.
requireUserNoThrow(got) == Return(got)

\* export async function requireUser(request), first form (401); got is
\* what `await getUser(request)` yielded.
requireUser(got) ==
    IF ~Truthy(got)
    THEN Throw(Response([text |-> "Unauthorized"], 401, {}))
    ELSE Return(got)

\* requireUser, second form: throws a hand-built redirect to /login.
requireUserLocation(got) ==
    IF ~Truthy(got)
    THEN Throw(Response([empty |-> TRUE], 302, {<<"Location", "/login">>}))
    ELSE Return(got)

\* requireUser, third form: throws redirect('/login').
requireUserRedirect(got) ==
    IF ~Truthy(got) THEN Throw(redirect("/login")) ELSE Return(got)

Variants == {"inline", "requireUser", "requireUserLocation",
             "requireUserRedirect"}

\* The sandwich loader up to and including its user check: the inline check
\* of the first listing, or the requireUser call of the last listing.
sandwichAuth(listing, got) ==
    CASE listing = "inline" ->
           IF ~Truthy(got)
           THEN Throw(Response([text |-> "Unauthorized"], 401, {}))
           ELSE Return(got)
      [] listing = "requireUser" -> requireUser(got)
      [] listing = "requireUserLocation" -> requireUserLocation(got)
      [] listing = "requireUserRedirect" -> requireUserRedirect(got)

\* The sandwich loader after its user check; fetched is the outcome of
\* `await getSandwich(params.sandwichId)`.
sandwichFetch(p, fetched) ==
    LET thrown == invariantResponse(Truthy(p.sandwichId),
                                    "sandwichId is required", 400)
    IN IF thrown # undefined THEN Throw(thrown)
       ELSE IF fetched.kind = "throw" THEN fetched
       ELSE IF ~Truthy(fetched.value)
            THEN Throw(Response([text |-> "Not Found"], 404, {}))
            ELSE Return(json([sandwich |-> fetched.value]))

\* What the framework does with a loader outcome: the route component on a
\* return, a navigation on a thrown redirect, the ErrorBoundary on any other
\* thrown value.
RenderRoute(route, out) ==
    IF out.kind = "return"
    THEN IF route = "note" THEN NoteRoute(out.value)
         ELSE [component |-> "SandwichRoute", data |-> useLoaderData(out.value)]
    ELSE IF isRouteErrorResponse(out.value) /\ out.value.status = 302
         THEN [component |-> "Navigate", headers |-> out.value.headers]
         ELSE ErrorBoundary(out.value)

----------------------------------------------------------------------------
VARIABLES
    notes,      \* the store's note collection
    variant,    \* which listing of the sandwich loader is deployed
    pc,         \* per request: "idle", "authed", "loaded", "rendered"
    route,      \* per request: "note" or "sandwich"
    params,     \* per request: the route params
    got,        \* per request: what getUser(request) yielded
    user,       \* per request: the loader's `user` constant
    result,     \* per request: what the loader returned or threw
    fresh,      \* per request: no store write since its lookup
    view        \* per request: what is on screen

vars == <<notes, variant, pc, route, params, got, user, result, fresh, view>>

none == [t |-> "none"]

Idle ==
    /\ pc = [r \in Requests |-> "idle"]
    /\ route = [r \in Requests |-> "none"]
    /\ params = [r \in Requests |-> none]
    /\ got = [r \in Requests |-> none]
    /\ user = [r \in Requests |-> none]
    /\ result = [r \in Requests |-> none]
    /\ fresh = [r \in Requests |-> FALSE]
    /\ view = [r \in Requests |-> none]

Init == notes \in Stores /\ variant = "inline" /\ Idle

\* Load, but reading with db.note.delete, which returns the note it removes.
LoadDeleting(r) ==
    /\ pc[r] = "idle"
    /\ \E id \in NoteIds :
         LET p == [noteId |-> id]
         IN /\ params' = [params EXCEPT ![r] = p]
            /\ result' = [result EXCEPT ![r] = loader(p, notes)]
            /\ notes' = {n \in notes : n.id # id}
    /\ route' = [route EXCEPT ![r] = "note"]
    /\ fresh' = [fresh EXCEPT ![r] = TRUE]
    /\ pc' = [pc EXCEPT ![r] = "loaded"]
    /\ UNCHANGED <<variant, got, user, view>>

\* A request for /users/:username/notes/:noteId runs the loader.
Load(r) ==
    /\ pc[r] = "idle"
    /\ \E id \in NoteIds :
         LET p == [noteId |-> id]
         IN /\ params' = [params EXCEPT ![r] = p]
            /\ result' = [result EXCEPT ![r] = loader(p, notes)]
    /\ route' = [route EXCEPT ![r] = "note"]
    /\ fresh' = [fresh EXCEPT ![r] = TRUE]
    /\ pc' = [pc EXCEPT ![r] = "loaded"]
    /\ UNCHANGED <<notes, variant, got, user, view>>

\* The framework renders the outcome of the loader.
Render(r) ==
    /\ pc[r] = "loaded"
    /\ view' = [view EXCEPT ![r] = RenderRoute(route[r], result[r])]
    /\ pc' = [pc EXCEPT ![r] = "rendered"]
    /\ UNCHANGED <<notes, variant, route, params, got, user, result, fresh>>

\* The request is over; the slot serves the next one.
Finish(r) ==
    /\ pc[r] = "rendered"
    /\ pc' = [pc EXCEPT ![r] = "idle"]
    /\ route' = [route EXCEPT ![r] = "none"]
    /\ params' = [params EXCEPT ![r] = none]
    /\ got' = [got EXCEPT ![r] = none]
    /\ user' = [user EXCEPT ![r] = none]
    /\ result' = [result EXCEPT ![r] = none]
    /\ fresh' = [fresh EXCEPT ![r] = FALSE]
    /\ view' = [view EXCEPT ![r] = none]
    /\ UNCHANGED <<notes, variant>>

\* Another route creates or replaces a note, or deletes one.
StoreWrite ==
    /\ \/ \E n \in Note : notes' = {m \in notes : m.id # n.id} \cup {n}
       \/ \E n \in notes : notes' = notes \ {n}
    /\ notes' # notes
    /\ fresh' = [r \in Requests |-> FALSE]
    /\ UNCHANGED <<variant, pc, route, params, got, user, result, view>>

Next ==
    \/ \E r \in Requests : Load(r)
    \/ \E r \in Requests : Render(r)
    \/ \E r \in Requests : Finish(r)
    \/ StoreWrite

Spec == Init /\ [][Next]_vars

----------------------------------------------------------------------------
(* The sandwich route of the lesson text *)

InitAuth == notes = {} /\ variant \in Variants /\ Idle

\* A request for /sandwiches/:sandwichId runs the loader up to its user
\* check, which resumes after `await getUser(request)`.
Auth(r) ==
    /\ pc[r] = "idle"
    /\ \E g \in GetUserResults, id \in SandwichIdParams :
         LET out == sandwichAuth(variant, g)
         IN /\ route' = [route EXCEPT ![r] = "sandwich"]
            /\ params' = [params EXCEPT ![r] = [sandwichId |-> id]]
            /\ got' = [got EXCEPT ![r] = g]
            /\ IF out.kind = "throw"
               THEN /\ result' = [result EXCEPT ![r] = out]
                    /\ pc' = [pc EXCEPT ![r] = "loaded"]
                    /\ UNCHANGED user
               ELSE /\ user' = [user EXCEPT ![r] = out.value]
                    /\ pc' = [pc EXCEPT ![r] = "authed"]
                    /\ UNCHANGED result
    /\ UNCHANGED <<notes, variant, fresh, view>>

\* The rest of the sandwich loader, resumed after `await getSandwich(...)`.
Fetch(r) ==
    /\ pc[r] = "authed"
    /\ \E f \in GetSandwichResults :
         result' = [result EXCEPT ![r] = sandwichFetch(params[r], f)]
    /\ pc' = [pc EXCEPT ![r] = "loaded"]
    /\ UNCHANGED <<notes, variant, route, params, got, user, fresh, view>>

NextAuth ==
    \/ \E r \in Requests : Auth(r)
    \/ \E r \in Requests : Fetch(r)
    \/ \E r \in Requests : Render(r)
    \/ \E r \in Requests : Finish(r)

AuthSpec == InitAuth /\ [][NextAuth]_vars

----------------------------------------------------------------------------
(* Properties of the note route (Spec) *)

\* The request's lookup has run on the note route.
LookedUp(r) == route[r] = "note" /\ pc[r] \in {"loaded", "rendered"}

\* The stored notes whose identifier the request asked for.
Stored(r) == {n \in notes : n.id = params[r].noteId}

Returned(r) == LookedUp(r) /\ result[r].kind = "return"

Thrown(r) == LookedUp(r) /\ result[r].kind = "throw"

\* C1: for an identifier present in the store, the lookup returns a note
\* whose title and content equal the stored record's, character for
\* character.  (fresh: the store is still as the lookup read it.)
C1_ReturnsStoredNote ==
    \A r \in Requests :
       LookedUp(r) /\ fresh[r] =>
          \A n \in Stored(r) :
             /\ result[r].kind = "return"
             /\ result[r].value.type = "Response"
             /\ result[r].value.status = 200
             /\ useLoaderData(result[r].value).note.title = n.title
             /\ useLoaderData(result[r].value).note.content = n.content

C1_Witness ==
    \E r \in Requests :
       /\ LookedUp(r) /\ fresh[r]
       /\ \E n \in Stored(r) :
             /\ n.title = <<" ", "T", " ">>
             /\ n.content = <<"a", "\n", " ", " ", "b">>
       /\ Cardinality(notes) = 2

\* C2: for an identifier absent from the store, the lookup throws a
\* response with status 404 and the message 'Note not found'.
C2_AbsentThrows404 ==
    \A r \in Requests :
       LookedUp(r) /\ fresh[r] /\ Stored(r) = {} =>
          /\ result[r].kind = "throw"
          /\ result[r].value.type = "Response"
          /\ result[r].value.status = 404
          /\ result[r].value.body = [text |-> "Note not found"]

C2_Witness ==
    \E r \in Requests :
       LookedUp(r) /\ fresh[r] /\ Stored(r) = {} /\ notes # {}

\* C3: two lookups of one identifier with no store write in between have
\* the same outcome.
C3_Idempotent ==
    \A r1, r2 \in Requests :
       /\ LookedUp(r1) /\ LookedUp(r2)
       /\ fresh[r1] /\ fresh[r2]
       /\ params[r1].noteId = params[r2].noteId
       => result[r1] = result[r2]

C3_Witness ==
    \E r1, r2 \in Requests :
       /\ r1 # r2
       /\ Returned(r1) /\ Returned(r2)
       /\ fresh[r1] /\ fresh[r2]
       /\ params[r1].noteId = params[r2].noteId

\* C4: a step in which a request's lookup runs leaves the store, and every
\* other request's state, as they were.
C4_LookupChangesNothingElse ==
    [][\A r \in Requests :
          pc[r] = "idle" /\ pc'[r] = "loaded" /\ route'[r] = "note" =>
             /\ notes' = notes
             /\ \A q \in Requests \ {r} :
                  /\ pc'[q] = pc[q] /\ params'[q] = params[q]
                  /\ result'[q] = result[q] /\ view'[q] = view[q]
                  /\ fresh'[q] = fresh[q]]_vars

C4_Witness ==
    \E r1, r2 \in Requests :
       /\ Returned(r1) /\ Thrown(r2)
       /\ fresh[r1] /\ fresh[r2]
       /\ notes # {}

\* C5: what the lookup returns holds the note's title and content and no
\* other field of the stored record.
C5_TitleAndContentOnly ==
    \A r \in Requests :
       Returned(r) =>
          /\ DOMAIN result[r].value.body.json = {"note"}
          /\ DOMAIN result[r].value.body.json.note = {"title", "content"}
          /\ DOMAIN useLoaderData(result[r].value).note = {"title", "content"}

C5_Witness ==
    \E r \in Requests :
       /\ Returned(r) /\ fresh[r]
       /\ \E n \in Stored(r) : DOMAIN n = {"id", "title", "content", "owner"}

\* C7: a rendered note request shows NoteRoute exactly when its lookup
\* returned and the ErrorBoundary exactly when its lookup threw; a lookup
\* that found nothing always ends in the ErrorBoundary, one that found a
\* note in NoteRoute; nothing is shown before the lookup's outcome is
\* rendered.
C7_ThrownSurfacesToBoundary ==
    \A r \in Requests :
       /\ LookedUp(r) /\ pc[r] = "loaded" => view[r] = none
       /\ LookedUp(r) /\ pc[r] = "rendered" =>
            /\ view[r].component \in {"NoteRoute", "ErrorBoundary"}
            /\ view[r].component = "NoteRoute" <=> result[r].kind = "return"
            /\ view[r].component = "ErrorBoundary" <=> result[r].kind = "throw"
            /\ result[r].kind = "throw" => view[r] = ErrorBoundary(result[r].value)
            /\ fresh[r] =>
                 (view[r].component = "NoteRoute" <=> Stored(r) # {})

C7_Witness ==
    \E r1, r2 \in Requests :
       /\ LookedUp(r1) /\ pc[r1] = "rendered" /\ fresh[r1] /\ Stored(r1) = {}
       /\ view[r1].component = "ErrorBoundary"
       /\ LookedUp(r2) /\ pc[r2] = "rendered" /\ fresh[r2] /\ Stored(r2) # {}
       /\ view[r2].component = "NoteRoute"

\* C8: the view of a resolved note has the title as heading, the content
\* unchanged as body in a whitespace-preserving element, and the actions
\* Delete and Edit; equal notes give equal views.
C8_ViewShowsNote ==
    /\ \A r \in Requests :
          Returned(r) /\ pc[r] = "rendered" =>
             /\ view[r].component = "NoteRoute"
             /\ view[r].heading = useLoaderData(result[r].value).note.title
             /\ view[r].body.text = useLoaderData(result[r].value).note.content
             /\ view[r].body.className = "whitespace-break-spaces"
             /\ view[r].actions = <<"Delete", "Edit">>
             /\ fresh[r] => \A n \in Stored(r) :
                   view[r].heading = n.title /\ view[r].body.text = n.content
    /\ \A r1, r2 \in Requests :
          /\ Returned(r1) /\ pc[r1] = "rendered"
          /\ Returned(r2) /\ pc[r2] = "rendered"
          /\ useLoaderData(result[r1].value) = useLoaderData(result[r2].value)
          => view[r1] = view[r2]

C8_Witness ==
    \E r1, r2 \in Requests :
       /\ r1 # r2
       /\ Returned(r1) /\ pc[r1] = "rendered"
       /\ Returned(r2) /\ pc[r2] = "rendered"
       /\ result[r1] = result[r2]
       /\ view[r1].body.text = <<"a", "\n", " ", " ", "b">>
       /\ view[r1].heading = <<" ", "T", " ">>

----------------------------------------------------------------------------
(* Properties of the lesson text's examples (AuthSpec) *)

\* The request's thrown value reached the ErrorBoundary.
AtBoundary(r) ==
    /\ pc[r] = "rendered"
    /\ result[r].kind = "throw"
    /\ view[r].component = "ErrorBoundary"

IsResponseWith(r, status) ==
    /\ result[r].value.type = "Response"
    /\ result[r].value.status = status

\* C6: the ErrorBoundary's message for a 404 response differs from its
\* message for a 401 response and from its message for anything else.
C6_Distinct404Message ==
    \A r1, r2 \in Requests :
       /\ AtBoundary(r1) /\ AtBoundary(r2)
       /\ IsResponseWith(r1, 404)
       /\ ~IsResponseWith(r2, 404)
       => view[r1].message # view[r2].message

C6_Witness ==
    \E r1, r2 \in Requests :
       /\ AtBoundary(r1) /\ AtBoundary(r2)
       /\ IsResponseWith(r1, 404)
       /\ IsResponseWith(r2, 401)

\* C9: with a requireUser listing deployed, the loader goes on past the
\* call only with the user getUser yielded, and when getUser yields no user
\* the call throws: a 401 response, or a redirect to /login.
C9_RequireUser ==
    \A r \in Requests :
       route[r] = "sandwich" /\ variant # "inline" =>
          /\ user[r] # none => got[r] \in Users /\ user[r] = got[r]
          /\ pc[r] = "authed" => user[r] # none
          /\ got[r] \in Users => user[r] = got[r]
          /\ got[r] \notin Users =>
               /\ user[r] = none
               /\ pc[r] \in {"loaded", "rendered"}
               /\ result[r].kind = "throw"
               /\ result[r].value.type = "Response"
               /\ IF variant = "requireUser"
                  THEN /\ result[r].value.status = 401
                       /\ result[r].value.body = [text |-> "Unauthorized"]
                  ELSE /\ result[r].value.status = 302
                       /\ result[r].value.headers = {<<"Location", "/login">>}

C9_Witness ==
    \E r1, r2 \in Requests :
       /\ variant = "requireUser"
       /\ route[r1] = "sandwich" /\ got[r1] = null /\ pc[r1] = "loaded"
       /\ route[r2] = "sandwich" /\ got[r2] \in Users /\ pc[r2] = "loaded"
       /\ result[r2].kind = "return"

\* C10: the ErrorBoundary says 'Not Found' exactly for a response with
\* status 404, 'Unauthorized' exactly for a response with status 401, and
\* 'Something went wrong' for every other thrown value.
C10_BoundaryMessages ==
    \A r \in Requests :
       AtBoundary(r) =>
          /\ view[r].message = "Not Found" <=> IsResponseWith(r, 404)
          /\ view[r].message = "Unauthorized" <=> IsResponseWith(r, 401)
          /\ view[r].message = "Something went wrong" <=>
                \/ result[r].value.type # "Response"
                \/ result[r].value.status \notin {404, 401}

C10_Witness ==
    \E r1, r2 \in Requests :
       /\ AtBoundary(r1) /\ result[r1].value.type = "Error"
       /\ AtBoundary(r2) /\ IsResponseWith(r2, 400)

====
